---- MODULE Spec2Model ----
(***************************************************************************)
(* Model of autoapprove.py: one run of main().  The run searches for pull  *)
(* requests through the shell (the shell redirects the client's output to  *)
(* prs.json), reads the file back, and for every entry of the parsed value *)
(* decides on the title, approves and merges.  The environment chooses the *)
(* return code and the stderr bytes of every command and the bytes the     *)
(* search leaves in prs.json.                                              *)
(***************************************************************************)
EXTENDS Integers, Sequences, FiniteSets, TLC

VARIABLES pc, file, returncode, stderrOk, pull_requests, i, events, log, exc

vars == <<pc, file, returncode, stderrOk, pull_requests, i, events, log, exc>>

(* ---------------------------------------------------------------- bounds *)
MaxPRs == 2
MaxTitleParts == 3

(* ------------------------------------------------------------- strings   *)
(* A string is a sequence of one-character strings.                        *)
UpperChars == <<"A","B","C","D","E","F","G","H","I","J","K","L","M",
                "N","O","P","Q","R","S","T","U","V","W","X","Y","Z">>
LowerChars == <<"a","b","c","d","e","f","g","h","i","j","k","l","m",
                "n","o","p","q","r","s","t","u","v","w","x","y","z">>

KEYWORD == <<"Y","O","U","R","F","A","V","O","U","R","I","T","E",
             "K","E","Y","W","O","R","D">>

(* str.lower() on one character *)
LowerChar(c) ==
    IF \E k \in 1..Len(UpperChars) : UpperChars[k] = c
    THEN LowerChars[CHOOSE k \in 1..Len(UpperChars) : UpperChars[k] = c]
    ELSE c

(* a comparison that forgets to lower the case *)
LowerForgotten(s) == s

(* str.lower() *)
Lower(s) == [k \in 1..Len(s) |-> LowerChar(s[k])]

(* needle in hay, scanning hay from position k on *)
RECURSIVE ContainsFrom(_, _, _)
ContainsFrom(needle, hay, k) ==
    IF k + Len(needle) - 1 > Len(hay) THEN FALSE
    ELSE IF SubSeq(hay, k, k + Len(needle) - 1) = needle THEN TRUE
    ELSE ContainsFrom(needle, hay, k + 1)

Contains(needle, hay) == ContainsFrom(needle, hay, 1)

(* line 65, negated: the keyword is in the title *)
KeywordMatch(pr_title) == Contains(Lower(KEYWORD), Lower(pr_title))

(* ------------------------------------------------------------- JSON      *)
(* The value json.load returns.  items is what iterating the value yields. *)
JValue(t, s) == [type |-> t, items |-> s]
JArray(s) == JValue("array", s)

(* an array element; isObject is false for an element that is not a JSON   *)
(* object, titleIsStr is false for a title that is not a JSON string       *)
Entry(o, ht, ts, t, hu, u) ==
    [isObject |-> o, hasTitle |-> ht, titleIsStr |-> ts, title |-> t,
     hasUrl |-> hu, url |-> u]
PullRequestRecord(t, u) == Entry(TRUE, TRUE, TRUE, t, TRUE, u)
NonObject == Entry(FALSE, FALSE, FALSE, <<>>, FALSE, "")

(* bool(value) *)
Truthy(v) ==
    CASE v.type \in {"array", "string", "object"} -> v.items # <<>>
      [] v.type \in {"null", "false", "zero"} -> FALSE
      [] OTHER -> TRUE

(* iter(value) does not raise *)
Iterable(v) == v.type \in {"array", "string", "object"}

(* ------------------------------------------------------------- inputs    *)
RetCodes == {0, 1, 137}
Urls == {"u1", "u2"}

TitleFixBug == <<"F","i","x"," ","b","u","g">>
TitleAdd == <<"A","d","d"," ">> \o KEYWORD \o <<" ","s","u","p","p","o","r","t">>
TitleLower == Lower(KEYWORD)
Titles == {TitleFixBug, TitleAdd, TitleLower}

Entries ==
    {PullRequestRecord(t, u) : t \in Titles, u \in Urls}
    \cup {Entry(TRUE, TRUE, TRUE, t, FALSE, "") : t \in Titles}
    \cup {Entry(TRUE, FALSE, FALSE, <<>>, TRUE, "u1"),
          Entry(TRUE, TRUE, FALSE, <<>>, TRUE, "u1"),
          NonObject}

SeqsUpTo(S, n) == UNION {[1..k -> S] : k \in 0..n}

(* JSON texts that are not an array: scalars, a string (iterating yields  *)
(* its characters), an object (iterating yields its keys)                  *)
NonArrays ==
    {JValue(t, <<>>) : t \in {"null", "false", "true", "zero", "number",
                               "string", "object"}}
    \cup {JValue(t, <<NonObject, NonObject>>) : t \in {"string", "object"}}

(* what prs.json holds: nothing (no such file), bytes the codec rejects,   *)
(* text that is not JSON, or the text of a JSON value                      *)
FileOf(k, v) == [kind |-> k, value |-> v]
Absent == FileOf("Absent", JValue("null", <<>>))
Undecodable == FileOf("Undecodable", JValue("null", <<>>))
Invalid == FileOf("Invalid", JValue("null", <<>>))
Text(v) == FileOf("Value", v)

Contents ==
    {Undecodable, Invalid}
    \cup {Text(v) : v \in NonArrays}
    \cup {Text(JArray(s)) : s \in SeqsUpTo(Entries, MaxPRs)}

(* titles for the match: up to MaxTitleParts pieces, among them the        *)
(* keyword in three spellings, the keyword cut in two and near misses      *)
TitlePieces ==
    {KEYWORD, Lower(KEYWORD),
     <<"Y","o","u","r","F","a","v","o","u","r","i","t","e",
       "K","e","y","w","o","r","d">>,
     SubSeq(KEYWORD, 1, 13), <<"k","e","y","w","o","r","d">>,
     SubSeq(KEYWORD, 2, 20), <<"y">>, <<" ">>, TitleFixBug}

RECURSIVE Flatten(_)
Flatten(ss) == IF ss = <<>> THEN <<>> ELSE Head(ss) \o Flatten(Tail(ss))

MatchTitles == {Flatten(ss) : ss \in SeqsUpTo(TitlePieces, MaxTitleParts)}
MatchContents == {Text(JArray(<<PullRequestRecord(t, "u1")>>)) : t \in MatchTitles}

(* ------------------------------------------------------------- history   *)
(* one external operation: a command run_command spawned, or the read of   *)
(* prs.json; idx is the position of the entry it was issued for            *)
Ev(op, idx, url, rc, wrote) ==
    [op |-> op, idx |-> idx, url |-> url, rc |-> rc, wrote |-> wrote]

Msg(level, msg, title, url) ==
    [level |-> level, msg |-> msg, title |-> title, url |-> url]

(* ------------------------------------------------------------- the run   *)
Init ==
    /\ pc = "start"
    /\ file \in {Absent, Text(JArray(<<PullRequestRecord(TitleAdd, "u1")>>))}
    /\ returncode = 0
    /\ stderrOk = TRUE
    /\ pull_requests = JArray(<<>>)
    /\ i = 0
    /\ events = <<>>
    /\ log = <<>>
    /\ exc = "None"

(* an exception nobody catches ends the process *)
Raise(e) == pc' = "aborted" /\ exc' = e

(* lines 46-47: the shell opens prs.json for writing, then runs the client *)
(* with its output redirected; when the shell cannot open the file it runs *)
(* nothing and returns non-zero                                            *)
Search(C) ==
    /\ pc = "start"
    /\ \E rc \in RetCodes, so \in BOOLEAN :
        /\ \/ /\ rc # 0
              /\ file' = file
              /\ events' = Append(events, Ev("search", 0, "", rc, FALSE))
           \/ \E c \in C :
              /\ file' = c
              /\ events' = Append(events, Ev("search", 0, "", rc, TRUE))
        /\ returncode' = rc
        /\ stderrOk' = so
    /\ pc' = "searched"
    /\ UNCHANGED <<pull_requests, i, log, exc>>

(* a check that knows only return code 1 as the failure *)
SearchOkUnlessOne(rc) == rc # 1

(* line 49 *)
SearchOk(rc) == rc = 0

(* lines 49-51 *)
SearchFailed ==
    /\ pc = "searched"
    /\ ~SearchOk(returncode)
    /\ IF stderrOk
       THEN /\ log' = Append(log, Msg("ERROR", "Failed to search PRs", <<>>, ""))
            /\ pull_requests' = JArray(<<>>)
            /\ pc' = "fetched"
            /\ UNCHANGED exc
       ELSE /\ Raise("UnicodeDecodeError")
            /\ UNCHANGED <<log, pull_requests>>
    /\ UNCHANGED <<file, returncode, stderrOk, i, events>>

(* lines 53-58 *)
ReadArtifact ==
    /\ pc = "searched"
    /\ SearchOk(returncode)
    /\ events' = Append(events, Ev("read", 0, "", 0, FALSE))
    /\ CASE file.kind = "Absent" ->
              /\ Raise("FileNotFoundError")
              /\ UNCHANGED <<log, pull_requests>>
         [] file.kind = "Undecodable" ->
              /\ Raise("UnicodeDecodeError")
              /\ UNCHANGED <<log, pull_requests>>
         [] file.kind = "Invalid" ->
              /\ log' = Append(log, Msg("ERROR", "Failed to parse JSON", <<>>, ""))
              /\ pull_requests' = JArray(<<>>)
              /\ pc' = "fetched"
              /\ UNCHANGED exc
         [] file.kind = "Value" ->
              /\ pull_requests' = file.value
              /\ pc' = "fetched"
              /\ UNCHANGED <<log, exc>>
    /\ UNCHANGED <<file, returncode, stderrOk, i>>

(* lines 92-94 *)
NoPullRequests ==
    /\ pc = "fetched"
    /\ ~Truthy(pull_requests)
    /\ log' = Append(log, Msg("WARNING", "No pull requests found", <<>>, ""))
    /\ pc' = "done"
    /\ UNCHANGED <<file, returncode, stderrOk, pull_requests, i, events, exc>>

(* line 96: the for statement asks the value for an iterator *)
BeginLoop ==
    /\ pc = "fetched"
    /\ Truthy(pull_requests)
    /\ IF Iterable(pull_requests)
       THEN pc' = "loop" /\ UNCHANGED exc
       ELSE Raise("TypeError")
    /\ UNCHANGED <<file, returncode, stderrOk, pull_requests, i, events, log>>

(* lines 96-97: the next entry, or the end of main *)
NextRecord ==
    /\ pc = "loop"
    /\ IF i < Len(pull_requests.items)
       THEN i' = i + 1 /\ pc' = "process"
       ELSE i' = i /\ pc' = "done"
    /\ UNCHANGED <<file, returncode, stderrOk, pull_requests, events, log, exc>>

(* lines 62-67 *)
Filter ==
    /\ pc = "process"
    /\ LET pr == pull_requests.items[i] IN
        CASE ~pr.isObject -> Raise("TypeError") /\ UNCHANGED log
          [] pr.isObject /\ ~pr.hasTitle -> Raise("KeyError") /\ UNCHANGED log
          [] pr.isObject /\ pr.hasTitle /\ ~pr.hasUrl ->
               Raise("KeyError") /\ UNCHANGED log
          [] pr.isObject /\ pr.hasTitle /\ pr.hasUrl /\ ~pr.titleIsStr ->
               Raise("AttributeError") /\ UNCHANGED log
          [] OTHER ->
               IF ~KeywordMatch(pr.title)
               THEN /\ log' = Append(log, Msg("INFO", "Skipping PR", pr.title, ""))
                    /\ pc' = "loop"
                    /\ UNCHANGED exc
               ELSE /\ pc' = "approve"
                    /\ UNCHANGED <<log, exc>>
    /\ UNCHANGED <<file, returncode, stderrOk, pull_requests, i, events>>

(* a check that knows only return code 1 as the failure *)
ApproveOkUnlessOne(rc) == rc # 1

(* the check of line 73 inverted *)
ApproveOkInverted(rc) == rc # 0

(* line 73 *)
ApproveOk(rc) == rc = 0

(* lines 69-77 *)
Approve ==
    /\ pc = "approve"
    /\ LET repo_url == pull_requests.items[i].url IN
       \E rc \in RetCodes, so \in BOOLEAN :
        /\ events' = Append(events, Ev("approve", i, repo_url, rc, FALSE))
        /\ IF ~ApproveOk(rc)
           THEN IF so
                THEN /\ log' = Append(log, Msg("ERROR", "Failed to approve PR", <<>>, repo_url))
                     /\ pc' = "loop"
                     /\ UNCHANGED exc
                ELSE Raise("UnicodeDecodeError") /\ UNCHANGED log
           ELSE /\ log' = Append(log, Msg("INFO", "Successfully approved PR", <<>>, repo_url))
                /\ pc' = "merge"
                /\ UNCHANGED exc
    /\ UNCHANGED <<file, returncode, stderrOk, pull_requests, i>>

(* lines 79-86 *)
Merge ==
    /\ pc = "merge"
    /\ LET repo_url == pull_requests.items[i].url IN
       \E rc \in RetCodes, so \in BOOLEAN :
        /\ events' = Append(events, Ev("merge", i, repo_url, rc, FALSE))
        /\ IF rc = 0
           THEN /\ log' = Append(log, Msg("INFO", "Successfully merged PR", <<>>, repo_url))
                /\ pc' = "loop"
                /\ UNCHANGED exc
           ELSE IF so
                THEN /\ log' = Append(log, Msg("ERROR", "Failed to merge PR", <<>>, repo_url))
                     /\ pc' = "loop"
                     /\ UNCHANGED exc
                ELSE Raise("UnicodeDecodeError") /\ UNCHANGED log
    /\ UNCHANGED <<file, returncode, stderrOk, pull_requests, i>>

Next ==
    \/ Search(Contents)
    \/ SearchFailed
    \/ ReadArtifact
    \/ NoPullRequests
    \/ BeginLoop
    \/ NextRecord
    \/ Filter
    \/ Approve
    \/ Merge

Spec == Init /\ [][Next]_vars

(* the same run on one well-formed record, the title drawn from MatchTitles *)
NextMatch ==
    \/ Search(MatchContents)
    \/ SearchFailed
    \/ ReadArtifact
    \/ NoPullRequests
    \/ BeginLoop
    \/ NextRecord
    \/ Filter
    \/ Approve
    \/ Merge

SpecMatch == Init /\ [][NextMatch]_vars

(* ------------------------------------------------------------- derived   *)
Items == pull_requests.items
Ended == pc \in {"done", "aborted"}
FetchOver == pc \notin {"start", "searched"}

(* positions in the history of the op invocations issued for entry k *)
Ops(op, k) == {j \in DOMAIN events : events[j].op = op /\ events[j].idx = k}
ApproveSucceeded(k) == \E j \in Ops("approve", k) : events[j].rc = 0
ApproveFailed(k) == \E j \in Ops("approve", k) : events[j].rc # 0
Writes == {j \in DOMAIN events : events[j].op = "search" /\ events[j].wrote}
Reads == {j \in DOMAIN events : events[j].op = "read"}

(* process_pull_request has returned for entry k *)
Returned(k) == k < i \/ (k = i /\ pc \in {"loop", "done"})

HasTitle(pr) == pr.isObject /\ pr.hasTitle /\ pr.titleIsStr

(* the state of entry k in the per-record state machine *)
RecordState(k) ==
    IF Ops("merge", k) # {}
    THEN IF \E j \in Ops("merge", k) : events[j].rc = 0
         THEN "Merged" ELSE "MergeFailed"
    ELSE IF Ops("approve", k) # {}
    THEN IF ApproveSucceeded(k) THEN "Approved" ELSE "ApproveFailed"
    ELSE IF Returned(k) THEN "Skipped" ELSE "Fetched"

Terminal == {"Skipped", "ApproveFailed", "Merged", "MergeFailed"}

(* the filter sent entry k on to the approve step *)
MatchDecision(k) == (k = i /\ pc = "approve") \/ Ops("approve", k) # {}

(* c and d are the same letter, whatever their case *)
SameLetter(c, d) ==
    \/ c = d
    \/ \E k \in 1..Len(UpperChars) : {c, d} = {UpperChars[k], LowerChars[k]}

(* K occurs in T at some offset, letter case ignored *)
FoldedSubstring(K, T) ==
    \E off \in 0..(Len(T) - Len(K)) :
        \A j \in 1..Len(K) : SameLetter(T[off + j], K[j])

(* ------------------------------------------------------------- claims    *)

(* C1: a merge invocation for an entry is always preceded by an approve    *)
(* invocation for the same entry that returned zero, and an entry whose    *)
(* approve invocation returned non-zero never gets a merge invocation.     *)
C1_MergeOnlyAfterApproval ==
    /\ \A j \in DOMAIN events :
          events[j].op = "merge" =>
             \E a \in 1..(j - 1) :
                /\ events[a].op = "approve"
                /\ events[a].idx = events[j].idx
                /\ events[a].rc = 0
    /\ \A k \in 1..Len(Items) : ApproveFailed(k) => Ops("merge", k) = {}

(* a finished run in which one entry's approval failed with return code    *)
(* 137 and another entry was approved and got its merge invocation         *)
C1_Witness ==
    /\ pc = "done"
    /\ \E k \in 1..Len(Items) :
          \E j \in Ops("approve", k) : events[j].rc = 137
    /\ \E k \in 1..Len(Items) : ApproveSucceeded(k) /\ Ops("merge", k) # {}

(* C2: an entry whose approve invocation returned zero gets exactly one    *)
(* merge invocation: none only while the merge is the very next step, and  *)
(* one from then on, whatever the merge returns.                           *)
C2_ExactlyOneMerge ==
    \A k \in 1..Len(Items) :
        ApproveSucceeded(k) =>
            Cardinality(Ops("merge", k)) = IF pc = "merge" /\ i = k THEN 0 ELSE 1

(* a finished run with one merged entry and one entry whose merge failed   *)
C2_Witness ==
    /\ pc = "done"
    /\ \E k \in 1..Len(Items) : RecordState(k) = "Merged"
    /\ \E k \in 1..Len(Items) : RecordState(k) = "MergeFailed"

(* C3: for every fetched entry whose title does not contain the keyword:   *)
(* no approve and no merge invocation, and by the end of the run a skip    *)
(* notice naming the title is logged and the entry has been left behind.   *)
C3_NoMatchIsSkipped ==
    FetchOver =>
        \A k \in 1..Len(Items) :
            (HasTitle(Items[k]) /\ ~FoldedSubstring(KEYWORD, Items[k].title)) =>
                /\ Ops("approve", k) = {}
                /\ Ops("merge", k) = {}
                /\ Ended =>
                     /\ Returned(k)
                     /\ \E m \in DOMAIN log :
                           /\ log[m].msg = "Skipping PR"
                           /\ log[m].title = Items[k].title

(* the search returned non-zero, or prs.json is not JSON, or it is the     *)
(* empty list                                                              *)
NothingUsable ==
    /\ FetchOver
    /\ \/ events[1].rc # 0
       \/ file.kind \in {"Undecodable", "Invalid"}
       \/ file = Text(JArray(<<>>))

(* C4: when the fetch yields nothing usable, fetch_pull_requests returns   *)
(* an empty sequence, no approve or merge invocation occurs, and the run   *)
(* ends normally after logging "No pull requests found".                   *)
C4_NothingUsableNothingDone ==
    NothingUsable =>
        /\ pc \in {"fetched", "done"}
        /\ pull_requests = JArray(<<>>)
        /\ \A j \in DOMAIN events : events[j].op \in {"search", "read"}
        /\ pc = "done" =>
              /\ log # <<>>
              /\ log[Len(log)].msg = "No pull requests found"

(* C5: whatever happens to entry N, main goes on to entry N+1: when the    *)
(* run has ended, process_pull_request has returned for every entry of the *)
(* fetched list.                                                           *)
C5_EveryRecordProcessed ==
    Ended => \A k \in 1..Len(Items) : Returned(k)

(* C6: the run never ends in an uncaught exception. *)
C6_NeverAborts == pc # "aborted"

(* C7: the filter sends an entry on to the approve step exactly when the   *)
(* keyword occurs in its title at some offset, letter case ignored.        *)
C7_MatchIsFoldedSubstring ==
    \A k \in 1..Len(Items) :
        (MatchDecision(k) \/ RecordState(k) = "Skipped") =>
            (MatchDecision(k) <=> FoldedSubstring(KEYWORD, Items[k].title))

(* a matched title with the keyword in mixed case after other text, and    *)
(* with more text after it                                                 *)
C7_Witness ==
    /\ pc = "approve"
    /\ LET T == Items[i].title IN
        /\ Len(T) > Len(KEYWORD) + 1
        /\ SubSeq(T, 1, Len(KEYWORD)) # KEYWORD
        /\ \E off \in 1..(Len(T) - Len(KEYWORD) - 1) :
              /\ SubSeq(T, off + 1, off + Len(KEYWORD)) \notin {KEYWORD, Lower(KEYWORD)}
              /\ Lower(SubSeq(T, off + 1, off + Len(KEYWORD))) = Lower(KEYWORD)

(* the edges of the per-record state machine *)
RecordEdges ==
    {<<"Fetched", "Skipped">>, <<"Fetched", "ApproveFailed">>,
     <<"Fetched", "Approved">>, <<"Approved", "Merged">>,
     <<"Approved", "MergeFailed">>}

(* C8: every entry moves only along the edges of the state machine, a      *)
(* terminal state never changes, nothing is invoked for an entry after its *)
(* merge failed, and when the run has ended every entry of the fetched     *)
(* list is in a terminal state.                                            *)
C8_RecordStateMachine ==
    [][\A k \in 1..Len(Items') :
          /\ Len(Items) = Len(Items') =>
                \/ RecordState(k)' = RecordState(k)
                \/ <<RecordState(k), RecordState(k)'>> \in RecordEdges
          /\ (Len(Items) = Len(Items') /\ RecordState(k) = "MergeFailed") =>
                /\ Ops("approve", k)' = Ops("approve", k)
                /\ Ops("merge", k)' = Ops("merge", k)
                /\ ApproveSucceeded(k)'
          /\ Ended' => RecordState(k)' \in Terminal]_vars

(* C9 as stated: by the end of the run prs.json was written exactly once   *)
(* and read exactly once, the read directly after the write and before any *)
(* approve or merge.                                                       *)
C9_WrittenOnceReadOnce ==
    Ended =>
        /\ Cardinality(Writes) = 1
        /\ Cardinality(Reads) = 1
        /\ Writes = {1}
        /\ Reads = {2}

(* C9 amended: prs.json is written at most once, by the search command,    *)
(* and always when that command returns zero; it is read exactly when the  *)
(* search command returned zero, once, directly after the write and before *)
(* any approve or merge; it is never written after it was read.            *)
C9_WriteThenReadWhenSearchOk ==
    /\ Writes \subseteq {1}
    /\ Reads \subseteq {2}
    /\ Reads # {} => Writes = {1}
    /\ \A j \in DOMAIN events : events[j].op = "search" => j = 1
    /\ FetchOver => (Reads = {2} <=> events[1].rc = 0)
    /\ (events # <<>> /\ events[1].rc = 0) => Writes = {1}

(* a finished run that read the file and then approved and merged          *)
C9_Witness ==
    /\ pc = "done"
    /\ Reads = {2}
    /\ \E j \in DOMAIN events : events[j].op = "merge" /\ j > 2

(* C10: entries are handled one at a time in list order: the invocations   *)
(* appear in the history in entry order, each entry gets at most one       *)
(* approve and at most one merge invocation, and when the run has ended    *)
(* the number of approve invocations is the number of entries whose title  *)
(* contains the keyword.                                                   *)
C10_OneAtATimeInOrder ==
    /\ \A a, b \in DOMAIN events :
          (a < b /\ events[a].idx > 0) => events[a].idx <= events[b].idx
    /\ \A k \in 1..Len(Items) :
          /\ Cardinality(Ops("approve", k)) <= 1
          /\ Cardinality(Ops("merge", k)) <= 1
    /\ \A j \in DOMAIN events :
          events[j].idx > 0 =>
             \A k \in 1..(events[j].idx - 1) : RecordState(k) \in Terminal
    /\ Ended =>
          Cardinality({j \in DOMAIN events : events[j].op = "approve"})
            = Cardinality({k \in 1..Len(Items) :
                             /\ HasTitle(Items[k])
                             /\ FoldedSubstring(KEYWORD, Items[k].title)})

====
